---- MODULE Spec2Model ----
(***************************************************************************)
(* Model of the RPW GC-MS cleaning pipeline (rpw_processing.py) and of the *)
(* batch loop that drives it (app.py).                                     *)
(*                                                                         *)
(* Text that the code inspects character by character (file names) is a    *)
(* sequence of one-character strings.  An optional value (Python None, a   *)
(* pandas NaN cell) is the empty set None; a present value x is Some(x).   *)
(***************************************************************************)
EXTENDS Integers, Sequences, FiniteSets, TLC

VARIABLES
    pc,            \* position of the running code
    filename,      \* the file name handed to the parser / to clean_rpw_file
    meta,          \* what extract_metadata_from_filename returned
    df_raw,        \* extract_top_hits: the caller's table
    df,            \* extract_top_hits: the working copy
    col_compound,  \* extract_top_hits: the detected compound column
    idx,           \* extract_top_hits: group key and row label of each group's maximum
    top,           \* extract_top_hits: the table returned
    err,           \* the exception raised, NoErr when none
    prev,          \* outcome of the previous run on the same table
    uploaded_files,\* app.py: the uploaded files, in upload order
    i,             \* app.py: number of the file the loop is at (0 before the first)
    all_tables,    \* app.py: the cleaned tables collected so far
    out,           \* app.py: what was shown to the user, in order
    df_all,        \* app.py: the combined table
    summary,       \* app.py: rows per (timepoint, group, adsorbent)
    engine,        \* load_libres_sheet: the reader engine chosen
    xls,           \* load_libres_sheet: the ExcelFile it holds, None when none
    libres_name,   \* load_libres_sheet: the sheet found
    open,          \* the workbooks opened and not yet released
    df_hits        \* clean_rpw_file: the table being built

metaVars == <<filename, meta>>
hitVars == <<df_raw, df, col_compound, idx, top, prev>>
loadVars == <<engine, xls, libres_name, open>>
appVars == <<uploaded_files, i, all_tables, out, df_all, summary>>
batchVars == <<uploaded_files, i, all_tables, out, df_all, summary,
               engine, xls, libres_name, open, df_hits>>
vars == <<pc, filename, meta, df_raw, df, col_compound, idx, top, err, prev,
          uploaded_files, i, all_tables, out, df_all, summary,
          engine, xls, libres_name, open, df_hits>>

None == {}
Some(x) == {x}
Get(o) == CHOOSE x \in o : TRUE

Max(S) == CHOOSE x \in S : \A y \in S : y <= x
Min(S) == CHOOSE x \in S : \A y \in S : x <= y

(***************************************************************************)
(* Characters and the str / re primitives the parser uses.                 *)
(***************************************************************************)
UpperChars == <<"A", "B", "C", "D", "E", "F", "G", "H", "I", "J", "K", "L", "M",
                "N", "O", "P", "Q", "R", "S", "T", "U", "V", "W", "X", "Y", "Z">>
LowerChars == <<"a", "b", "c", "d", "e", "f", "g", "h", "i", "j", "k", "l", "m",
                "n", "o", "p", "q", "r", "s", "t", "u", "v", "w", "x", "y", "z">>
DigitChars == <<"0", "1", "2", "3", "4", "5", "6", "7", "8", "9">>

\* str.lower() on one character
LowerChar(c) ==
    IF \E k \in 1..Len(UpperChars) : UpperChars[k] = c
    THEN LowerChars[CHOOSE k \in 1..Len(UpperChars) : UpperChars[k] = c]
    ELSE c

\* str.lower()
ToLower(s) == [k \in 1..Len(s) |-> LowerChar(s[k])]

\* regex class \d
IsDigit(c) == \E k \in 1..Len(DigitChars) : DigitChars[k] = c

\* regex class \s
IsSpace(c) == c \in {" ", "\t", "\n", "\r"}

DigitVal(c) == (CHOOSE k \in 1..Len(DigitChars) : DigitChars[k] = c) - 1

\* int(<digits>)
RECURSIVE ToInt(_)
ToInt(ds) ==
    IF ds = << >> THEN 0
    ELSE 10 * ToInt(SubSeq(ds, 1, Len(ds) - 1)) + DigitVal(ds[Len(ds)])

\* sub occurs in s starting at position p
HasAt(s, p, sub) ==
    /\ p >= 1
    /\ p + Len(sub) - 1 <= Len(s)
    /\ SubSeq(s, p, p + Len(sub) - 1) = sub

\* the Python test `sub in s`
Contains(s, sub) == \E p \in 1..Len(s) : HasAt(s, p, sub)

\* last position of the greedy \d+ that starts at p (s[p] is a digit)
DigitRunEnd(s, p) ==
    CHOOSE j \in p..Len(s) :
        /\ \A k \in p..j : IsDigit(s[k])
        /\ j = Len(s) \/ ~IsDigit(s[j + 1])

\* last position of the greedy \s* that starts after position j
SpaceRunEnd(s, j) ==
    CHOOSE k \in j..Len(s) :
        /\ \A m \in (j + 1)..k : IsSpace(s[m])
        /\ k = Len(s) \/ ~IsSpace(s[k + 1])

\* r"(\d+)\s*h" matches with its first character at p
TimeMatchAt(s, p) ==
    /\ IsDigit(s[p])
    /\ LET k == SpaceRunEnd(s, DigitRunEnd(s, p))
       IN  k < Len(s) /\ s[k + 1] = "h"

\* re.search(r"(\d+)\s*h", s): group(1) of the leftmost match
TimeSearch(s) ==
    LET starts == {p \in 1..Len(s) : TimeMatchAt(s, p)}
    IN  IF starts # {}
        THEN Some(SubSeq(s, Min(starts), DigitRunEnd(s, Min(starts))))
        ELSE None

AdsorbentTokens == {<<"c", "h", "a", "r">>, <<"d", "v", "b">>}

\* r"-(char|dvb)-(\d+)" matches with its first character at p, alternative tok
SampleMatchAt(s, p, tok) ==
    /\ s[p] = "-"
    /\ HasAt(s, p + 1, tok)
    /\ p + Len(tok) + 2 <= Len(s)
    /\ s[p + Len(tok) + 1] = "-"
    /\ IsDigit(s[p + Len(tok) + 2])

\* re.search(r"-(char|dvb)-(\d+)", s): group(2) of the leftmost match
SampleSearch(s) ==
    LET starts == {p \in 1..Len(s) : \E tok \in AdsorbentTokens : SampleMatchAt(s, p, tok)}
    IN  IF starts # {}
        THEN LET p == Min(starts)
                 tok == CHOOSE t \in AdsorbentTokens : SampleMatchAt(s, p, t)
                 d == p + Len(tok) + 2
             IN  Some(SubSeq(s, d, DigitRunEnd(s, d)))
        ELSE None

(***************************************************************************)
(* extract_metadata_from_filename                                          *)
(***************************************************************************)
Timepoint(name) ==
    LET m_time == TimeSearch(name)
    IN  IF m_time # None THEN Some(Get(m_time) \o <<"h">>) ELSE None

Adsorbent(name) ==
    IF Contains(name, <<"c", "h", "a", "r">>) THEN Some("char")
    ELSE IF Contains(name, <<"d", "v", "b">>) THEN Some("dvb")
    ELSE None

\* Sample with the pattern r"(char|dvb)-(\d+)", its leading hyphen lost
Sample_noHyphen(name) ==
    LET starts == {p \in 1..Len(name) :
                      \E tok \in AdsorbentTokens :
                          /\ HasAt(name, p, tok)
                          /\ p + Len(tok) + 1 <= Len(name)
                          /\ name[p + Len(tok)] = "-"
                          /\ IsDigit(name[p + Len(tok) + 1])}
    IN  IF starts # {}
        THEN LET p == Min(starts)
                 tok == CHOOSE t \in AdsorbentTokens : HasAt(name, p, t)
                 d == p + Len(tok) + 1
             IN  Some(ToInt(SubSeq(name, d, DigitRunEnd(name, d))))
        ELSE None

Sample(name) ==
    LET m_sample == SampleSearch(name)
    IN  IF m_sample # None THEN Some(ToInt(Get(m_sample))) ELSE None

Group(name) ==
    LET healthy == Contains(name, <<"h", "e", "a", "l", "t", "h", "y">>)
        infested == Contains(name, <<"i", "n", "f", "e", "s", "t", "e", "d">>)
        masa == Contains(name, <<"m", "a", "s", "a">>)
    IN  IF healthy /\ ~infested
        THEN (IF masa THEN Some("healthy+masa") ELSE Some("healthy"))
        ELSE IF infested
        THEN (IF masa THEN Some("infested+masa") ELSE Some("infested"))
        ELSE None

extract_metadata_from_filename(fname) ==
    LET name == ToLower(fname)
    IN  [group |-> Group(name),
         timepoint |-> Timepoint(name),
         adsorbent |-> Adsorbent(name),
         sample |-> Sample(name),
         source_file |-> fname]

NoMeta ==
    [group |-> None, timepoint |-> None, adsorbent |-> None, sample |-> None,
     source_file |-> << >>]

(***************************************************************************)
(* Tables (pandas DataFrame): column names in declared order, the row      *)
(* labels (index) and the rows, each row one cell per column.              *)
(***************************************************************************)
EmptyTable == [columns |-> << >>, index |-> << >>, rows |-> << >>]

NoErr == [type |-> "none", what |-> "", names |-> << >>]

\* the characters of the column and sheet names that occur in the model
Chars(name) ==
    CASE name = "Compound" -> <<"C", "o", "m", "p", "o", "u", "n", "d">>
      [] name = "COMPOUND" -> <<"C", "O", "M", "P", "O", "U", "N", "D">>
      [] name = "Compound number (#)" ->
            <<"C", "o", "m", "p", "o", "u", "n", "d", " ", "n", "u", "m", "b",
              "e", "r", " ", "(", "#", ")">>
      [] name = "compound_id" ->
            <<"c", "o", "m", "p", "o", "u", "n", "d", "_", "i", "d">>
      [] name = "Quality" -> <<"Q", "u", "a", "l", "i", "t", "y">>
      [] name = "quality" -> <<"q", "u", "a", "l", "i", "t", "y">>
      [] name = "RT (min)" -> <<"R", "T", " ", "(", "m", "i", "n", ")">>
      [] name = "group" -> <<"g", "r", "o", "u", "p">>
      [] name = "LibRes" -> <<"L", "i", "b", "R", "e", "s">>
      [] name = "libres" -> <<"l", "i", "b", "r", "e", "s">>
      [] name = "LIBRES" -> <<"L", "I", "B", "R", "E", "S">>
      [] name = "LibRes2" -> <<"L", "i", "b", "R", "e", "s", "2">>
      [] name = "IntRes" -> <<"I", "n", "t", "R", "e", "s">>
      [] name = "QRes" -> <<"Q", "R", "e", "s">>

\* the elements of a finite set of integers in ascending order
RECURSIVE SortedSeq(_)
SortedSeq(S) == IF S = {} THEN << >> ELSE <<Min(S)>> \o SortedSeq(S \ {Min(S)})

HasCol(t, name) == \E k \in 1..Len(t.columns) : t.columns[k] = name

ColPos(t, name) ==
    CHOOSE k \in 1..Len(t.columns) :
        t.columns[k] = name /\ \A j \in 1..(k - 1) : t.columns[j] # name

\* df[name]: the cells of one column, by row position
Column(t, name) == [r \in 1..Len(t.rows) |-> t.rows[r][ColPos(t, name)]]

\* SetColumn that leaves a column the table already has as it is
SetColumn_keepExisting(t, name, vals) ==
    IF \E k \in 1..Len(t.columns) : t.columns[k] = name
    THEN t
    ELSE [t EXCEPT !.columns = Append(t.columns, name),
                   !.rows = [r \in 1..Len(t.rows) |-> Append(t.rows[r], vals[r])]]

\* df[name] = vals: overwrite the column when it exists, else add it as the last one
SetColumn(t, name, vals) ==
    IF HasCol(t, name)
    THEN [t EXCEPT !.rows =
            [r \in 1..Len(t.rows) |->
                [k \in 1..Len(t.columns) |->
                    IF t.columns[k] = name THEN vals[r] ELSE t.rows[r][k]]]]
    ELSE [t EXCEPT !.columns = Append(t.columns, name),
                   !.rows = [r \in 1..Len(t.rows) |-> Append(t.rows[r], vals[r])]]

\* the rows at the positions of P, in table order, keeping their labels
PickRows(t, P) ==
    LET ks == SortedSeq(P)
    IN  [t EXCEPT !.index = [j \in 1..Len(ks) |-> t.index[ks[j]]],
                  !.rows = [j \in 1..Len(ks) |-> t.rows[ks[j]]]]

\* df.dropna(how="all")
DropAllEmpty(t) ==
    PickRows(t, {r \in 1..Len(t.rows) :
                    \E k \in 1..Len(t.columns) : t.rows[r][k] # None})

\* FFill that fills with the first non-null value above, not the nearest
FFill_first(vals) ==
    [r \in 1..Len(vals) |->
        LET P == {q \in 1..r : vals[q] # None}
        IN  IF vals[r] # None THEN vals[r]
            ELSE IF P = {} THEN None ELSE vals[Min(P)]]

\* Series.ffill()
FFill(vals) ==
    [r \in 1..Len(vals) |->
        LET P == {q \in 1..r : vals[q] # None}
        IN  IF P = {} THEN None ELSE vals[Max(P)]]

\* df.dropna(subset=[name])
DropNull(t, name) ==
    PickRows(t, {r \in 1..Len(t.rows) : Column(t, name)[r] # None})

\* the column names c with "compound" in str(c).lower(), in column order
CompoundCandidates(t) ==
    SelectSeq(t.columns,
              LAMBDA c : Contains(ToLower(Chars(c)),
                                  <<"c", "o", "m", "p", "o", "u", "n", "d">>))

\* the group keys of df.groupby(name), ascending
GroupKeys(t, name) ==
    SortedSeq({Get(Column(t, name)[r]) : r \in 1..Len(t.rows)})

\* IdxMaxOf that takes the last of the rows holding the largest value
IdxMaxOf_lastBest(t, key, quality) ==
    LET R == {r \in 1..Len(t.rows) : Column(t, "compound_id")[r] = Some(key)}
        Q == {r \in R : Column(t, quality)[r] # None}
        best == Max({Get(Column(t, quality)[r]) : r \in Q})
    IN  IF Q = {} THEN None
        ELSE Some(t.index[Max({r \in Q : Get(Column(t, quality)[r]) = best})])

\* Series.idxmax() of one group: the label of the first row holding the
\* largest non-null value, NaN (None) when the group has no non-null value
IdxMaxOf(t, key, quality) ==
    LET R == {r \in 1..Len(t.rows) : Column(t, "compound_id")[r] = Some(key)}
        Q == {r \in R : Column(t, quality)[r] # None}
        best == Max({Get(Column(t, quality)[r]) : r \in Q})
    IN  IF Q = {} THEN None
        ELSE Some(t.index[Min({r \in Q : Get(Column(t, quality)[r]) = best})])

\* df.groupby("compound_id")[col_quality].idxmax()
GroupIdxMax(t, quality) ==
    LET keys == GroupKeys(t, "compound_id")
    IN  [j \in 1..Len(keys) |->
            [key |-> keys[j], label |-> IdxMaxOf(t, keys[j], quality)]]

\* position of the row labelled lab
LabelPos(t, lab) == CHOOSE r \in 1..Len(t.index) : t.index[r] = lab

\* df.loc[labels]
Loc(t, labels) ==
    [t EXCEPT !.index = labels,
              !.rows = [j \in 1..Len(labels) |-> t.rows[LabelPos(t, labels[j])]]]

\* position order of sort_values(name): ascending cell value, row order among equals
RECURSIVE SortOrder(_, _, _)
SortOrder(t, name, P) ==
    IF P = {} THEN << >>
    ELSE LET least == Min({Get(Column(t, name)[r]) : r \in P})
             r0 == Min({r \in P : Get(Column(t, name)[r]) = least})
         IN  <<r0>> \o SortOrder(t, name, P \ {r0})

\* df.sort_values(name).reset_index(drop=True)
SortReset(t, name) ==
    LET ord == SortOrder(t, name, 1..Len(t.rows))
    IN  [t EXCEPT !.index = [j \in 1..Len(ord) |-> j - 1],
                  !.rows = [j \in 1..Len(ord) |-> t.rows[ord[j]]]]

col_quality == "Quality"

(***************************************************************************)
(* extract_top_hits, one action per statement.  Each raises by setting err *)
(* and moving to "hits_raised"; the return is "hits_returned".             *)
(***************************************************************************)
\* DetectCompound that looks for the Quality column first
DetectCompound_qualityFirst ==
    /\ pc = "hits_detect"
    /\ df' = df_raw
    /\ IF ~HasCol(df_raw, col_quality)
       THEN /\ err' = [type |-> "KeyError", what |-> "Column not found",
                       names |-> <<col_quality>>]
            /\ pc' = "hits_raised"
            /\ UNCHANGED col_compound
       ELSE IF CompoundCandidates(df_raw) = << >>
       THEN /\ err' = [type |-> "KeyError", what |-> "No compound column found",
                       names |-> df_raw.columns]
            /\ pc' = "hits_raised"
            /\ UNCHANGED col_compound
       ELSE /\ col_compound' = CompoundCandidates(df_raw)[1]
            /\ pc' = "hits_dropall"
            /\ UNCHANGED err
    /\ UNCHANGED <<df_raw, idx, top, prev, metaVars, batchVars>>

DetectCompound ==
    /\ pc = "hits_detect"
    /\ df' = df_raw
    /\ IF CompoundCandidates(df_raw) = << >>
       THEN /\ err' = [type |-> "KeyError", what |-> "No compound column found",
                       names |-> df_raw.columns]
            /\ pc' = "hits_raised"
            /\ UNCHANGED col_compound
       ELSE /\ col_compound' = CompoundCandidates(df_raw)[1]
            /\ pc' = "hits_dropall"
            /\ UNCHANGED err
    /\ UNCHANGED <<df_raw, idx, top, prev, metaVars, batchVars>>

DropEmptyRows ==
    /\ pc = "hits_dropall"
    /\ df' = DropAllEmpty(df)
    /\ pc' = "hits_ffill"
    /\ UNCHANGED <<df_raw, col_compound, idx, top, err, prev, metaVars, batchVars>>

ForwardFill ==
    /\ pc = "hits_ffill"
    /\ df' = SetColumn(df, "compound_id", FFill(Column(df, col_compound)))
    /\ pc' = "hits_dropnull"
    /\ UNCHANGED <<df_raw, col_compound, idx, top, err, prev, metaVars, batchVars>>

DropNullCompound ==
    /\ pc = "hits_dropnull"
    /\ df' = DropNull(df, "compound_id")
    /\ pc' = "hits_idxmax"
    /\ UNCHANGED <<df_raw, col_compound, idx, top, err, prev, metaVars, batchVars>>

IdxMax ==
    /\ pc = "hits_idxmax"
    /\ IF ~HasCol(df, col_quality)
       THEN /\ err' = [type |-> "KeyError", what |-> "Column not found",
                       names |-> <<col_quality>>]
            /\ pc' = "hits_raised"
            /\ UNCHANGED idx
       ELSE /\ idx' = GroupIdxMax(df, col_quality)
            /\ pc' = "hits_loc"
            /\ UNCHANGED err
    /\ UNCHANGED <<df_raw, df, col_compound, top, prev, metaVars, batchVars>>

\* a NaN among the labels (a group whose Quality is all null) is no row label
LocSort ==
    /\ pc = "hits_loc"
    /\ IF \E j \in 1..Len(idx) : idx[j].label = None
       THEN /\ err' = [type |-> "KeyError", what |-> "not in index", names |-> << >>]
            /\ pc' = "hits_raised"
            /\ UNCHANGED top
       ELSE /\ top' = SortReset(Loc(df, [j \in 1..Len(idx) |-> Get(idx[j].label)]),
                                "compound_id")
            /\ pc' = "hits_returned"
            /\ UNCHANGED err
    /\ UNCHANGED <<df_raw, df, col_compound, idx, prev, metaVars, batchVars>>

extract_top_hits ==
    \/ DetectCompound
    \/ DropEmptyRows
    \/ ForwardFill
    \/ DropNullCompound
    \/ IdxMax
    \/ LocSort

(***************************************************************************)
(* Input tables: what read_excel(header=8) can hand to the reducer.  The   *)
(* reader numbers the rows 0, 1, 2, ... and keeps column names distinct.   *)
(***************************************************************************)
MaxRows == 3

ColDomain(name) ==
    IF name \in {"RT (min)", "Compound number (#)", "COMPOUND", "compound_id"}
    THEN {None, Some(2)}
    ELSE {None, Some(1), Some(2)}

RowsOf(layout) ==
    {row \in [1..Len(layout) -> {None, Some(1), Some(2)}] :
        \A k \in 1..Len(layout) : row[k] \in ColDomain(layout[k])}

\* the table the reader builds from a header row and the rows below it
SheetTable(layout, rows) ==
    [columns |-> layout, index |-> [r \in 1..Len(rows) |-> r - 1], rows |-> rows]

Layouts ==
    {<<"Compound", "Quality">>,
     <<"Quality", "COMPOUND">>,
     <<"compound_id", "Quality">>,
     <<"RT (min)", "Quality">>,
     <<"Compound number (#)", "quality">>,
     <<"RT (min)", "quality">>,
     <<"Compound", "Compound number (#)", "Quality">>}

\* tables of three columns are taken one row shorter
MaxRowsOf(layout) == IF Len(layout) > 2 THEN MaxRows - 1 ELSE MaxRows

NoRun == [pc |-> "none", err |-> NoErr, top |-> EmptyTable]

(***************************************************************************)
(* File names: group, masa, timepoint, adsorbent/sample and extension      *)
(* parts in the order the file-name convention writes them.                *)
(***************************************************************************)
GroupParts ==
    {<<"H", "e", "a", "l", "t", "h", "y">>,
     <<"I", "n", "f", "e", "s", "t", "e", "d">>,
     <<"H", "e", "a", "l", "t", "h", "y", "_", "v", "s", "_",
       "I", "n", "f", "e", "s", "t", "e", "d">>,
     <<"c", "t", "r", "l">>}
MasaParts == {<< >>, <<"_", "M", "A", "S", "A">>}
TimeParts ==
    {<< >>,
     <<"_", "2", "4", "h">>,
     <<"_", "7", "2", "h">>,
     <<"_", "4", "8", " ", "H">>,
     <<"_", "x", "7", "h", "3">>}
SampleParts ==
    {<< >>,
     <<"_", "c", "h", "a", "r", "-", "1">>,
     <<"-", "c", "h", "a", "r", "-", "1">>,
     <<"_", "d", "v", "b", "-", "3">>,
     <<"-", "d", "v", "b", "-", "3">>,
     <<"-", "c", "h", "a", "r">>,
     <<"-", "d", "v", "b", "-", "1", "2">>,
     <<"_", "d", "v", "b", "-", "c", "h", "a", "r", "-", "2">>}
ExtParts == {<<".", "x", "l", "s", "x">>, <<".", "x", "l", "s">>}

FileNames ==
    {g \o m \o t \o a \o e :
        g \in GroupParts, m \in MasaParts, t \in TimeParts,
        a \in SampleParts, e \in ExtParts}

(***************************************************************************)
(* load_libres_sheet                                                       *)
(***************************************************************************)
\* str.endswith
EndsWith(s, suffix) == HasAt(s, Len(s) - Len(suffix) + 1, suffix)

Engine(fname) ==
    IF EndsWith(ToLower(fname), <<".", "x", "l", "s">>) THEN Some("xlrd") ELSE None

\* s.lower() == "libres"
IsLibRes(sheetName) == ToLower(Chars(sheetName)) = <<"l", "i", "b", "r", "e", "s">>

SheetNames(book) == [k \in 1..Len(book.sheets) |-> book.sheets[k].name]

\* FirstLibRes without the break: the last match wins
FirstLibRes_last(names) ==
    IF \E k \in 1..Len(names) : IsLibRes(names[k])
    THEN Some(names[Max({k \in 1..Len(names) : IsLibRes(names[k])})])
    ELSE None

\* the for loop over xls.sheet_names with its break: the first match, None when none
FirstLibRes(names) ==
    IF \E k \in 1..Len(names) : IsLibRes(names[k])
    THEN Some(names[Min({k \in 1..Len(names) : IsLibRes(names[k])})])
    ELSE None

\* the sheet that read_excel(xls, sheet_name=name) reads
SheetNamed(book, name) ==
    book.sheets[Min({k \in 1..Len(book.sheets) : book.sheets[k].name = name})]

CurrentFile == uploaded_files[i]

\* pd.ExcelFile(file_obj, engine=engine)
OpenWorkbook ==
    /\ pc = "load_open"
    /\ engine' = Engine(filename)
    /\ IF CurrentFile.book.readable
       THEN /\ xls' = Some(i)
            /\ open' = open \cup {i}
            /\ pc' = "load_find"
            /\ UNCHANGED err
       ELSE /\ err' = [type |-> "Exception", what |-> "workbook cannot be read",
                       names |-> << >>]
            /\ pc' = "clean_raised"
            /\ UNCHANGED <<xls, open>>
    /\ UNCHANGED <<metaVars, hitVars, appVars, libres_name, df_hits>>

FindLibRes ==
    /\ pc = "load_find"
    /\ LET names == SheetNames(CurrentFile.book)
       IN  IF FirstLibRes(names) = None
           THEN /\ err' = [type |-> "ValueError", what |-> "No 'LibRes' sheet found",
                           names |-> names]
                /\ pc' = "clean_raised"
                /\ UNCHANGED libres_name
           ELSE /\ libres_name' = FirstLibRes(names)
                /\ pc' = "load_read"
                /\ UNCHANGED err
    /\ UNCHANGED <<metaVars, hitVars, appVars, engine, xls, open, df_hits>>

\* pd.read_excel(xls, sheet_name=libres_name, header=8), then the return, which
\* drops the function's reference to the ExcelFile
ReadSheet ==
    /\ pc = "load_read"
    /\ LET sheet == SheetNamed(CurrentFile.book, Get(libres_name))
       IN  IF sheet.readable
           THEN /\ df_raw' = sheet.table
                /\ xls' = None
                /\ pc' = "hits_detect"
                /\ UNCHANGED err
           ELSE /\ err' = [type |-> "Exception", what |-> "sheet cannot be read",
                           names |-> <<Get(libres_name)>>]
                /\ pc' = "clean_raised"
                /\ UNCHANGED <<df_raw, xls>>
    /\ UNCHANGED <<metaVars, df, col_compound, idx, top, prev, appVars,
                   engine, libres_name, open, df_hits>>

\* The code never closes the ExcelFile: the workbook is released when the
\* interpreter finalizes the object, at some time after the last reference to
\* it (the local xls, or the frame kept by a traceback) is gone, or never.
Finalize ==
    /\ \E h \in open :
          /\ xls # Some(h)
          /\ open' = open \ {h}
    /\ UNCHANGED <<pc, metaVars, hitVars, err, appVars, engine, xls, libres_name,
                   df_hits>>

load_libres_sheet ==
    \/ OpenWorkbook
    \/ FindLibRes
    \/ ReadSheet

(***************************************************************************)
(* clean_rpw_file                                                          *)
(***************************************************************************)
rename_map ==
    ("Compound number (#)" :> "compound_number") @@
    ("Compound" :> "compound_number") @@
    ("RT (min)" :> "rt_min") @@
    ("Scan number (#)" :> "scan_number") @@
    ("Scan numb" :> "scan_number") @@
    ("Area (Ab*s)" :> "area_abs") @@
    ("Baseline Heigth (Ab)" :> "baseline_height") @@
    ("Baseline H" :> "baseline_height") @@
    ("Absolute Heigth (Ab)" :> "absolute_height") @@
    ("Absolute H" :> "absolute_height") @@
    ("Peak Width 50% (min)" :> "peak_width_50") @@
    ("Peak Widt" :> "peak_width_50") @@
    ("Hit Number" :> "hit_number") @@
    ("Hit Numbe" :> "hit_number") @@
    ("Hit Name" :> "hit_name") @@
    ("Quality" :> "quality") @@
    ("Mol Weight (amu)" :> "mol_weight_amu") @@
    ("CAS Number" :> "cas_number") @@
    ("Library" :> "library") @@
    ("Entry Number" :> "entry_number") @@
    ("Entry Numb" :> "entry_number")

\* df.rename(columns=rename_map)
Rename(t) ==
    [t EXCEPT !.columns =
        [k \in 1..Len(t.columns) |->
            IF t.columns[k] \in DOMAIN rename_map
            THEN rename_map[t.columns[k]]
            ELSE t.columns[k]]]

\* the keys of meta in the order meta.items() yields them
MetaKeys == <<"group", "timepoint", "adsorbent", "sample", "source_file">>

\* the cell that df[key] = val writes
MetaCell(m, key) ==
    CASE key = "group" -> m.group
      [] key = "timepoint" -> m.timepoint
      [] key = "adsorbent" -> m.adsorbent
      [] key = "sample" -> m.sample
      [] key = "source_file" -> Some(m.source_file)

\* for key, val in meta.items(): df_hits[key] = val
RECURSIVE Attach(_, _, _)
Attach(t, m, keys) ==
    IF keys = << >> THEN t
    ELSE Attach(SetColumn(t, keys[1], [r \in 1..Len(t.rows) |-> MetaCell(m, keys[1])]),
                m, Tail(keys))

\* PropagateHits that swallows the exception and goes on with what there is
PropagateHits_swallow ==
    /\ pc = "hits_raised"
    /\ pc' = "hits_returned"
    /\ UNCHANGED <<metaVars, hitVars, err, batchVars>>

\* an exception raised in extract_top_hits leaves clean_rpw_file uncaught
PropagateHits ==
    /\ pc = "hits_raised"
    /\ pc' = "clean_raised"
    /\ UNCHANGED <<metaVars, hitVars, err, batchVars>>

RenameColumns ==
    /\ pc = "hits_returned"
    /\ df_hits' = Rename(top)
    /\ pc' = "clean_meta"
    /\ UNCHANGED <<metaVars, hitVars, err, appVars, loadVars>>

ParseMeta ==
    /\ pc = "clean_meta"
    /\ meta' = extract_metadata_from_filename(filename)
    /\ pc' = "clean_attach"
    /\ UNCHANGED <<filename, hitVars, err, batchVars>>

AttachMeta ==
    /\ pc = "clean_attach"
    /\ df_hits' = Attach(df_hits, meta, MetaKeys)
    /\ pc' = "clean_returned"
    /\ UNCHANGED <<metaVars, hitVars, err, appVars, loadVars>>

clean_rpw_file ==
    \/ load_libres_sheet
    \/ extract_top_hits
    \/ PropagateHits
    \/ RenameColumns
    \/ ParseMeta
    \/ AttachMeta

(***************************************************************************)
(* app.py: the batch loop                                                  *)
(***************************************************************************)
Event(kind, file, e) == [kind |-> kind, file |-> file, err |-> e]

\* the column names of the tables, each once, in order of first appearance
RECURSIVE UnionColumns(_)
UnionColumns(tables) ==
    IF tables = << >> THEN << >>
    ELSE LET before == UnionColumns(SubSeq(tables, 1, Len(tables) - 1))
             last == tables[Len(tables)]
         IN  before \o SelectSeq(last.columns,
                                 LAMBDA c : \A k \in 1..Len(before) : before[k] # c)

\* the rows of t laid out under columns cols, NaN where t has no such column
Widen(t, cols) ==
    [r \in 1..Len(t.rows) |->
        [k \in 1..Len(cols) |->
            IF HasCol(t, cols[k]) THEN t.rows[r][ColPos(t, cols[k])] ELSE None]]

RECURSIVE ConcatRows(_, _)
ConcatRows(tables, cols) ==
    IF tables = << >> THEN << >>
    ELSE Widen(tables[1], cols) \o ConcatRows(Tail(tables), cols)

\* pd.concat(tables, ignore_index=True)
Concat(tables) ==
    LET cols == UnionColumns(tables)
        rows == ConcatRows(tables, cols)
    IN  [columns |-> cols, index |-> [r \in 1..Len(rows) |-> r - 1], rows |-> rows]

\* df_all.groupby(["timepoint", "group", "adsorbent"]).size(): the number of rows
\* of each key; rows with a null key are left out
SummaryKey(t, r) ==
    <<Column(t, "timepoint")[r], Column(t, "group")[r], Column(t, "adsorbent")[r]>>

Summary(t) ==
    LET R == {r \in 1..Len(t.rows) : \A k \in 1..3 : SummaryKey(t, r)[k] # None}
    IN  [key \in {SummaryKey(t, r) : r \in R} |->
            Cardinality({r \in R : SummaryKey(t, r) = key})]

NoSummary == [key \in {} |-> 0]

\* if uploaded_files: ... else: st.info(...)
AppStart ==
    /\ pc = "app_start"
    /\ IF uploaded_files # << >>
       THEN /\ pc' = "loop"
            /\ UNCHANGED out
       ELSE /\ out' = Append(out, Event("info", << >>, NoErr))
            /\ pc' = "done"
    /\ UNCHANGED <<metaVars, hitVars, err, uploaded_files, i, all_tables, df_all,
                   summary, loadVars, df_hits>>

\* for f in uploaded_files: st.write(...); the call clean_rpw_file(f, f.name)
\* starts with fresh locals
LoopNext ==
    /\ pc = "loop"
    /\ i < Len(uploaded_files)
    /\ i' = i + 1
    /\ out' = Append(out, Event("write", uploaded_files[i + 1].name, NoErr))
    /\ filename' = uploaded_files[i + 1].name
    /\ meta' = NoMeta
    /\ df_raw' = EmptyTable
    /\ df' = EmptyTable
    /\ col_compound' = ""
    /\ idx' = << >>
    /\ top' = EmptyTable
    /\ df_hits' = EmptyTable
    /\ err' = NoErr
    /\ engine' = None
    /\ libres_name' = None
    /\ pc' = "load_open"
    /\ UNCHANGED <<prev, uploaded_files, all_tables, df_all, summary, xls, open>>

LoopEnd ==
    /\ pc = "loop"
    /\ i = Len(uploaded_files)
    /\ pc' = "after_loop"
    /\ UNCHANGED <<metaVars, hitVars, err, batchVars>>

\* all_tables.append(df_clean)
AppendTable ==
    /\ pc = "clean_returned"
    /\ all_tables' = Append(all_tables, df_hits)
    /\ pc' = "loop"
    /\ UNCHANGED <<metaVars, hitVars, err, uploaded_files, i, out, df_all, summary,
                   loadVars, df_hits>>

\* ReportError that leaves the loop at the first failure
ReportError_abort ==
    /\ pc = "clean_raised"
    /\ out' = Append(out, Event("error", filename, err))
    /\ xls' = None
    /\ pc' = "after_loop"
    /\ UNCHANGED <<metaVars, hitVars, err, uploaded_files, i, all_tables, df_all,
                   summary, engine, libres_name, open, df_hits>>

\* except Exception as e: st.error(...); leaving the clause drops e, its
\* traceback and the frames it kept
ReportError ==
    /\ pc = "clean_raised"
    /\ out' = Append(out, Event("error", filename, err))
    /\ xls' = None
    /\ pc' = "loop"
    /\ UNCHANGED <<metaVars, hitVars, err, uploaded_files, i, all_tables, df_all,
                   summary, engine, libres_name, open, df_hits>>

\* if all_tables: concat, show, summarise, offer the download; else: st.warning
Aggregate ==
    /\ pc = "after_loop"
    /\ IF all_tables # << >>
       THEN /\ df_all' = Concat(all_tables)
            /\ summary' = Summary(Concat(all_tables))
            /\ out' = out \o <<Event("dataframe", << >>, NoErr),
                              Event("summary", << >>, NoErr),
                              Event("download", << >>, NoErr)>>
       ELSE /\ out' = Append(out, Event("warning", << >>, NoErr))
            /\ UNCHANGED <<df_all, summary>>
    /\ pc' = "done"
    /\ UNCHANGED <<metaVars, hitVars, err, uploaded_files, i, all_tables,
                   loadVars, df_hits>>

(***************************************************************************)
(* The uploads of the batch specification.                                 *)
(***************************************************************************)
MaxFiles == 2

NameHealthy ==
    <<"H", "e", "a", "l", "t", "h", "y", "_", "2", "4", "h", "-", "c", "h", "a",
      "r", "-", "1", ".", "x", "l", "s", "x">>
NameInfested ==
    <<"I", "n", "f", "e", "s", "t", "e", "d", "_", "M", "A", "S", "A", "_", "7",
      "2", "h", "_", "d", "v", "b", "-", "3", ".", "x", "l", "s">>

Sheet(name, readable, table) == [name |-> name, readable |-> readable, table |-> table]

Book(sheets) == [readable |-> TRUE, sheets |-> sheets]

OtherSheet(name) == Sheet(name, TRUE, SheetTable(<<"RT (min)">>, <<<<Some(2)>>>>))

\* a workbook of the usual export: IntRes, LibRes, QRes
Export(table) == Book(<<OtherSheet("IntRes"), Sheet("LibRes", TRUE, table), OtherSheet("QRes")>>)

TableTwoCompounds ==
    SheetTable(<<"Compound", "Quality">>,
               <<<<Some(2), Some(1)>>, <<None, None>>, <<Some(1), Some(1)>>,
                 <<None, Some(2)>>>>)
TableOneCompound ==
    SheetTable(<<"Compound number (#)", "RT (min)", "Quality">>,
               <<<<Some(2), Some(2), Some(1)>>>>)
TableOwnGroup ==
    SheetTable(<<"group", "COMPOUND", "Quality">>,
               <<<<Some("sheet"), Some(1), Some(2)>>, <<None, None, Some(2)>>>>)
TableNoCompound ==
    SheetTable(<<"RT (min)", "Quality">>, <<<<Some(2), Some(1)>>>>)
TableNoQuality ==
    SheetTable(<<"Compound", "quality">>, <<<<Some(1), Some(1)>>>>)
TableNullQuality ==
    SheetTable(<<"Compound", "Quality">>,
               <<<<Some(1), Some(1)>>, <<Some(2), None>>>>)

Uploads ==
    {[name |-> NameInfested,
      book |-> Book(<<Sheet("libres", TRUE, TableTwoCompounds),
                      Sheet("LIBRES", TRUE, TableOneCompound)>>)],
     [name |-> NameHealthy, book |-> Export(TableOwnGroup)],
     [name |-> NameInfested, book |-> [readable |-> FALSE, sheets |-> << >>]],
     [name |-> NameHealthy,
      book |-> Book(<<OtherSheet("IntRes"), OtherSheet("LibRes2"), OtherSheet("QRes")>>)],
     [name |-> NameHealthy,
      book |-> Book(<<OtherSheet("IntRes"), Sheet("LibRes", FALSE, EmptyTable)>>)],
     [name |-> NameInfested, book |-> Export(TableNoCompound)],
     [name |-> NameHealthy, book |-> Export(TableNoQuality)],
     [name |-> NameInfested, book |-> Export(TableNullQuality)]}

\* the variables of app.py and of the loader before anything ran
BatchIdle ==
    /\ uploaded_files = << >>
    /\ i = 0
    /\ all_tables = << >>
    /\ out = << >>
    /\ df_all = EmptyTable
    /\ summary = NoSummary
    /\ engine = None
    /\ xls = None
    /\ libres_name = None
    /\ open = {}
    /\ df_hits = EmptyTable

HitsIdle ==
    /\ df_raw = EmptyTable
    /\ df = EmptyTable
    /\ col_compound = ""
    /\ idx = << >>
    /\ top = EmptyTable
    /\ err = NoErr
    /\ prev = NoRun

(***************************************************************************)
(* Spec: one run of app.py over a batch of uploads.                        *)
(***************************************************************************)
Init ==
    /\ pc = "app_start"
    /\ \E n \in 0..MaxFiles : uploaded_files \in [1..n -> Uploads]
    /\ i = 0
    /\ all_tables = << >>
    /\ out = << >>
    /\ df_all = EmptyTable
    /\ summary = NoSummary
    /\ engine = None
    /\ xls = None
    /\ libres_name = None
    /\ open = {}
    /\ df_hits = EmptyTable
    /\ filename = << >>
    /\ meta = NoMeta
    /\ HitsIdle

Next ==
    \/ AppStart
    \/ LoopNext
    \/ clean_rpw_file
    \/ AppendTable
    \/ ReportError
    \/ LoopEnd
    \/ Aggregate
    \/ Finalize

Spec == Init /\ [][Next]_vars

(***************************************************************************)
(* SpecHits: extract_top_hits on one table, run twice.                     *)
(***************************************************************************)
InitHits ==
    /\ pc = "hits_detect"
    /\ \E layout \in Layouts : \E n \in 0..MaxRowsOf(layout) :
          \E rows \in [1..n -> RowsOf(layout)] : df_raw = SheetTable(layout, rows)
    /\ df = EmptyTable
    /\ col_compound = ""
    /\ idx = << >>
    /\ top = EmptyTable
    /\ err = NoErr
    /\ prev = NoRun
    /\ filename = << >>
    /\ meta = NoMeta
    /\ BatchIdle

RunAgain ==
    /\ pc \in {"hits_returned", "hits_raised"}
    /\ prev = NoRun
    /\ prev' = [pc |-> pc, err |-> err, top |-> top]
    /\ pc' = "hits_detect"
    /\ df' = EmptyTable
    /\ col_compound' = ""
    /\ idx' = << >>
    /\ top' = EmptyTable
    /\ err' = NoErr
    /\ UNCHANGED <<df_raw, metaVars, batchVars>>

NextHits ==
    \/ extract_top_hits
    \/ RunAgain

SpecHits == InitHits /\ [][NextHits]_vars

(***************************************************************************)
(* SpecMeta: the parser applied to one file name.                          *)
(***************************************************************************)
InitMeta ==
    /\ pc = "clean_meta"
    /\ filename \in FileNames
    /\ meta = NoMeta
    /\ HitsIdle
    /\ BatchIdle

NextMeta == ParseMeta

SpecMeta == InitMeta /\ [][NextMeta]_vars

(***************************************************************************)
(* The functions as their callers see them: the outcome of a whole call.   *)
(***************************************************************************)
Raised(e) == [ok |-> FALSE, err |-> e, table |-> EmptyTable]
Returned(t) == [ok |-> TRUE, err |-> NoErr, table |-> t]

\* extract_top_hits(t)
TopHitsOutcome(t) ==
    LET candidates == CompoundCandidates(t)
    IN  IF candidates = << >>
        THEN Raised([type |-> "KeyError", what |-> "No compound column found",
                     names |-> t.columns])
        ELSE LET nonEmpty == DropAllEmpty(t)
                 filled == SetColumn(nonEmpty, "compound_id",
                                     FFill(Column(nonEmpty, candidates[1])))
                 kept == DropNull(filled, "compound_id")
             IN  IF ~HasCol(kept, col_quality)
                 THEN Raised([type |-> "KeyError", what |-> "Column not found",
                              names |-> <<col_quality>>])
                 ELSE LET ix == GroupIdxMax(kept, col_quality)
                      IN  IF \E j \in 1..Len(ix) : ix[j].label = None
                          THEN Raised([type |-> "KeyError", what |-> "not in index",
                                       names |-> << >>])
                          ELSE Returned(SortReset(
                                  Loc(kept, [j \in 1..Len(ix) |-> Get(ix[j].label)]),
                                  "compound_id"))

\* clean_rpw_file(f, f.name)
CleanOutcome(f) ==
    IF ~f.book.readable
    THEN Raised([type |-> "Exception", what |-> "workbook cannot be read",
                 names |-> << >>])
    ELSE IF FirstLibRes(SheetNames(f.book)) = None
    THEN Raised([type |-> "ValueError", what |-> "No 'LibRes' sheet found",
                 names |-> SheetNames(f.book)])
    ELSE LET sheet == SheetNamed(f.book, Get(FirstLibRes(SheetNames(f.book))))
             hits == TopHitsOutcome(sheet.table)
         IN  IF ~sheet.readable
             THEN Raised([type |-> "Exception", what |-> "sheet cannot be read",
                          names |-> <<sheet.name>>])
             ELSE IF ~hits.ok
             THEN hits
             ELSE Returned(Attach(Rename(hits.table),
                                  extract_metadata_from_filename(f.name), MetaKeys))

(***************************************************************************)
(* What the claims speak of, read off the sheet itself.                    *)
(***************************************************************************)
\* position of the first column whose name contains "compound"
CompoundPos(t) ==
    Min({k \in 1..Len(t.columns) :
            Contains(ToLower(Chars(t.columns[k])),
                     <<"c", "o", "m", "p", "o", "u", "n", "d">>)})

\* the identifier of row r: its own, else that of the nearest row above that has one
RECURSIVE NearestId(_, _, _)
NearestId(t, c, r) ==
    IF r = 0 THEN None
    ELSE IF t.rows[r][c] # None THEN t.rows[r][c]
    ELSE NearestId(t, c, r - 1)

\* the rows that are not all-empty and have an identifier
DataRows(t) ==
    LET c == CompoundPos(t)
    IN  {r \in 1..Len(t.rows) :
            /\ \E k \in 1..Len(t.columns) : t.rows[r][k] # None
            /\ NearestId(t, c, r) # None}

DistinctIds(t) ==
    LET c == CompoundPos(t)
    IN  {NearestId(t, c, r) : r \in DataRows(t)}

GroupRows(t, id) ==
    LET c == CompoundPos(t)
    IN  {r \in DataRows(t) : NearestId(t, c, r) = id}

QualityAt(t, r) == t.rows[r][ColPos(t, "Quality")]

RatedRows(t, id) == {r \in GroupRows(t, id) : QualityAt(t, r) # None}

\* the first row of the group among those of the largest Quality
FirstBest(t, id) ==
    LET rated == RatedRows(t, id)
        best == Max({Get(QualityAt(t, r)) : r \in rated})
    IN  Min({r \in rated : Get(QualityAt(t, r)) = best})

HitsEnded == pc \in {"hits_returned", "hits_raised"}

ThisRun == [pc |-> pc, err |-> err, top |-> top]

(***************************************************************************)
(* C3                                                                      *)
(***************************************************************************)
\* C3 as claimed: on every table with a compound column and a Quality
\* column extract_top_hits returns, and returns as many rows as there are
\* distinct forward-filled identifiers, null Quality or not.
C3_RowPerCompound ==
    (HitsEnded /\ CompoundCandidates(df_raw) # << >> /\ HasCol(df_raw, "Quality"))
        => /\ pc = "hits_returned"
           /\ Len(top.rows) = Cardinality(DistinctIds(df_raw))

(***************************************************************************)
(* C4                                                                      *)
(***************************************************************************)
\* C4: every identifier has exactly one returned row; that row is the
\* sheet row of the largest Quality in the identifier's group and, among
\* several of that Quality, the first; a second run ends as the first did.
C4_FirstBestRow ==
    /\ pc = "hits_returned" =>
          /\ Len(top.rows) = Cardinality(DistinctIds(df_raw))
          /\ \A id \in DistinctIds(df_raw) :
                \E j \in 1..Len(top.rows) : Column(top, "compound_id")[j] = id
          /\ \A j \in 1..Len(top.rows) :
                LET id == Column(top, "compound_id")[j]
                    first == FirstBest(df_raw, id)
                IN  /\ RatedRows(df_raw, id) # {}
                    /\ idx[j].label = Some(df_raw.index[first])
                    /\ \A k \in 1..Len(df_raw.columns) :
                          df_raw.columns[k] # "compound_id" =>
                              top.rows[j][k] = df_raw.rows[first][k]
    /\ (HitsEnded /\ prev # NoRun) => ThisRun = prev

\* C4 witness: a second run has returned on a table where two rows of one
\* group share the largest Quality.
C4_Witness ==
    /\ pc = "hits_returned"
    /\ prev # NoRun
    /\ \E id \in DistinctIds(df_raw) :
          \E r \in RatedRows(df_raw, id) :
              /\ r # FirstBest(df_raw, id)
              /\ QualityAt(df_raw, r) = QualityAt(df_raw, FirstBest(df_raw, id))

(***************************************************************************)
(* C6                                                                      *)
(***************************************************************************)
\* C6 as claimed: in every returned row the column chosen in step 1 holds a
\* non-null value, the sheet's own or the one filled in from above.
C6_ChosenColumnFilled ==
    pc = "hits_returned" =>
        \A j \in 1..Len(top.rows) :
            /\ Column(top, col_compound)[j] # None
            /\ Column(top, col_compound)[j] =
                  NearestId(df_raw, CompoundPos(df_raw), Get(idx[j].label) + 1)

\* C6 amended: the filled value is in the column compound_id; the chosen
\* column keeps what the sheet has (unless it is itself named compound_id);
\* a row with no identifier above it is not returned.
C6_CompoundIdFilled ==
    pc = "hits_returned" =>
        LET c == CompoundPos(df_raw)
        IN  /\ col_compound = df_raw.columns[c]
            /\ \A j \in 1..Len(top.rows) :
                  LET r == Get(idx[j].label) + 1
                  IN  /\ Column(top, "compound_id")[j] # None
                      /\ Column(top, "compound_id")[j] = NearestId(df_raw, c, r)
                      /\ col_compound # "compound_id" =>
                            Column(top, col_compound)[j] = df_raw.rows[r][c]
            /\ \A r \in 1..Len(df_raw.rows) :
                  NearestId(df_raw, c, r) = None =>
                      \A j \in 1..Len(idx) : idx[j].label # Some(df_raw.index[r])

\* C6 witness: a returned row that had no identifier of its own in the sheet.
C6_Witness ==
    /\ pc = "hits_returned"
    /\ col_compound # "compound_id"
    /\ \E j \in 1..Len(top.rows) :
          /\ Column(top, col_compound)[j] = None
          /\ Column(top, "compound_id")[j] # None

(***************************************************************************)
(* C10                                                                     *)
(***************************************************************************)
C10_State ==
    /\ (pc # "hits_detect" /\ CompoundCandidates(df_raw) = << >>) =>
          /\ pc = "hits_raised"
          /\ err = [type |-> "KeyError", what |-> "No compound column found",
                    names |-> df_raw.columns]
          /\ df = df_raw
          /\ idx = << >>
          /\ top = EmptyTable
    /\ (HitsEnded /\ CompoundCandidates(df_raw) # << >> /\ ~HasCol(df_raw, "Quality")) =>
          /\ pc = "hits_raised"
          /\ err = [type |-> "KeyError", what |-> "Column not found",
                    names |-> <<"Quality">>]
          /\ top = EmptyTable
    /\ err.what = "No compound column found" => CompoundCandidates(df_raw) = << >>

\* C10: without a compound column the call raises the missing-column error
\* naming all columns, Quality column or not, with no row dropped or filled
\* yet; with a compound column but no column named Quality it raises a key
\* lookup error; neither returns a table, and no step changes the caller's
\* table.
C10_ColumnErrors == [](C10_State) /\ [][df_raw' = df_raw]_vars

\* C10 witness: the missing-column error on a table that has rows and a
\* Quality column.
C10_Witness ==
    /\ pc = "hits_raised"
    /\ err.what = "No compound column found"
    /\ HasCol(df_raw, "Quality")
    /\ df_raw.rows # << >>

(***************************************************************************)
(* C5                                                                      *)
(***************************************************************************)
SpecExample1 ==
    <<"H", "e", "a", "l", "t", "h", "y", "_", "2", "4", "h", "_", "c", "h", "a",
      "r", "-", "1", ".", "x", "l", "s", "x">>
SpecExample2 == NameInfested

MetaIs(g, t, a, n) ==
    /\ meta.group = g
    /\ meta.timepoint = t
    /\ meta.adsorbent = a
    /\ meta.sample = n
    /\ meta.source_file = filename

\* C5 as claimed: "Healthy_24h_char-1.xlsx" gives healthy, 24h, char and
\* sample 1; "Infested_MASA_72h_dvb-3.xls" gives infested+masa, 72h, dvb
\* and sample 3.
C5_ExamplesWithSample ==
    pc = "clean_attach" =>
        /\ filename = SpecExample1 =>
              MetaIs(Some("healthy"), Some(<<"2", "4", "h">>), Some("char"), Some(1))
        /\ filename = SpecExample2 =>
              MetaIs(Some("infested+masa"), Some(<<"7", "2", "h">>), Some("dvb"), Some(3))

\* C5 amended: the same groups, timepoints and adsorbents, and a null
\* sample for both names, which have no hyphen before the adsorbent token.
C5_ExamplesNullSample ==
    pc = "clean_attach" =>
        /\ filename = SpecExample1 =>
              MetaIs(Some("healthy"), Some(<<"2", "4", "h">>), Some("char"), None)
        /\ filename = SpecExample2 =>
              MetaIs(Some("infested+masa"), Some(<<"7", "2", "h">>), Some("dvb"), None)

\* C5 witness: the first example name has been parsed.
C5_Witness == pc = "clean_attach" /\ filename = SpecExample1

(***************************************************************************)
(* The batch: what the loop has finished, and what that must have left.    *)
(***************************************************************************)
\* the tables of the files among the first k that clean_rpw_file cleans
RECURSIVE GoodTables(_)
GoodTables(k) ==
    IF k = 0 THEN << >>
    ELSE LET outcome == CleanOutcome(uploaded_files[k])
         IN  IF outcome.ok
             THEN Append(GoodTables(k - 1), outcome.table)
             ELSE GoodTables(k - 1)

\* what the loop shows for the first k files
RECURSIVE ExpectedLog(_)
ExpectedLog(k) ==
    IF k = 0 THEN << >>
    ELSE LET outcome == CleanOutcome(uploaded_files[k])
         IN  ExpectedLog(k - 1)
             \o <<Event("write", uploaded_files[k].name, NoErr)>>
             \o (IF outcome.ok THEN << >>
                 ELSE <<Event("error", uploaded_files[k].name, outcome.err)>>)

LoopLog == SelectSeq(out, LAMBDA e : e.kind \in {"write", "error"})

\* the table of the sheet load_libres_sheet has to load from f
LibResTable(f) == SheetNamed(f.book, Get(FirstLibRes(SheetNames(f.book)))).table

HasAllMeta(t) == \A k \in 1..Len(MetaKeys) : HasCol(t, MetaKeys[k])

(***************************************************************************)
(* C1                                                                      *)
(***************************************************************************)
\* C1: the loop takes the files once each in upload order, one at a time;
\* a failure is shown for its file and the loop goes on; the tables
\* collected are those of the files that were cleaned, in upload order.
C1_BatchLoop ==
    /\ i \in 0..Len(uploaded_files)
    /\ pc \in {"after_loop", "done"} => i = Len(uploaded_files)
    /\ pc \in {"loop", "after_loop", "done"} =>
          /\ LoopLog = ExpectedLog(i)
          /\ all_tables = GoodTables(i)
    /\ pc = "load_open" =>
          /\ LoopLog = Append(ExpectedLog(i - 1), Event("write", CurrentFile.name, NoErr))
          /\ all_tables = GoodTables(i - 1)
    /\ pc \in {"clean_returned", "clean_raised"} =>
          LoopLog = Append(ExpectedLog(i - 1), Event("write", CurrentFile.name, NoErr))

\* C1 witness: a batch of two is over, the first file failed and the second
\* was cleaned.
C1_Witness ==
    /\ pc = "done"
    /\ Len(uploaded_files) = 2
    /\ ~CleanOutcome(uploaded_files[1]).ok
    /\ CleanOutcome(uploaded_files[2]).ok
    /\ Len(all_tables) = 1

(***************************************************************************)
(* C2                                                                      *)
(***************************************************************************)
\* C2: what clean_rpw_file returns is complete (one row per compound of
\* the sheet, no column left under a name the rename table maps, the five
\* metadata columns holding the values parsed from the file name); when it
\* raises it has built no table and nothing of the file reaches all_tables.
C2_AllOrNothing ==
    /\ pc = "clean_returned" =>
          /\ CleanOutcome(CurrentFile).ok
          /\ Len(df_hits.rows) = Cardinality(DistinctIds(LibResTable(CurrentFile)))
          /\ \A k \in 1..Len(df_hits.columns) : df_hits.columns[k] \notin DOMAIN rename_map
          /\ \A k \in 1..Len(MetaKeys) :
                /\ HasCol(df_hits, MetaKeys[k])
                /\ \A r \in 1..Len(df_hits.rows) :
                      Column(df_hits, MetaKeys[k])[r] =
                          MetaCell(extract_metadata_from_filename(filename), MetaKeys[k])
    /\ pc = "clean_raised" =>
          /\ ~CleanOutcome(CurrentFile).ok
          /\ err # NoErr
          /\ df_hits = EmptyTable
          /\ all_tables = GoodTables(i - 1)
    /\ (pc = "loop" /\ i >= 1 /\ ~CleanOutcome(CurrentFile).ok) =>
          all_tables = GoodTables(i - 1)
    /\ \A j \in 1..Len(all_tables) : HasAllMeta(all_tables[j])

\* C2 witness: the reducer failed on the second file, after a first file was
\* cleaned, and the loop has moved on.
C2_Witness ==
    /\ pc = "loop"
    /\ i = 2
    /\ err.what = "Column not found"
    /\ Len(all_tables) = 1

(***************************************************************************)
(* C7                                                                      *)
(***************************************************************************)
\* C7: the sheet loaded is the first, in the reader's order, whose
\* lowercased name is "libres"; the sheet-not-found error is raised exactly
\* when the opened workbook has no such sheet, it lists the sheet names, and
\* then no sheet was read and no table built.
C7_FirstLibResOrError ==
    /\ pc \in {"load_read", "hits_detect"} =>
          LET names == SheetNames(CurrentFile.book)
          IN  \E k \in 1..Len(names) :
                 /\ IsLibRes(names[k])
                 /\ \A j \in 1..(k - 1) : ~IsLibRes(names[j])
                 /\ libres_name = Some(names[k])
                 /\ pc = "hits_detect" => df_raw = CurrentFile.book.sheets[k].table
    /\ (pc = "clean_raised" /\ err.what = "No 'LibRes' sheet found") =>
          /\ err.type = "ValueError"
          /\ err.names = SheetNames(CurrentFile.book)
          /\ \A k \in 1..Len(err.names) : ~IsLibRes(err.names[k])
          /\ libres_name = None
          /\ df_raw = EmptyTable
          /\ df_hits = EmptyTable
    /\ (pc = "clean_raised" /\ CurrentFile.book.readable
            /\ \A k \in 1..Len(CurrentFile.book.sheets) :
                  ~IsLibRes(CurrentFile.book.sheets[k].name)) =>
          err.what = "No 'LibRes' sheet found"

\* C7 witness: a sheet was loaded from a workbook with two sheets whose
\* names differ from "libres" only in case.
C7_Witness ==
    /\ pc = "hits_detect"
    /\ Cardinality({k \in 1..Len(CurrentFile.book.sheets) :
                       IsLibRes(CurrentFile.book.sheets[k].name)}) = 2

(***************************************************************************)
(* C8                                                                      *)
(***************************************************************************)
\* C8 as claimed: once a clean_rpw_file call has returned or raised, and
\* from then on, no workbook it opened is still open.
C8_ReleasedOnEveryPath ==
    pc \in {"clean_returned", "clean_raised", "loop", "after_loop", "done"}
        => open = {}

(***************************************************************************)
(* C9                                                                      *)
(***************************************************************************)
RECURSIVE SumRows(_)
SumRows(tables) ==
    IF tables = << >> THEN 0 ELSE Len(tables[1].rows) + SumRows(Tail(tables))

\* C9: the combined table has the rows of all cleaned files, each row
\* unchanged, and in every row the five metadata columns hold what the
\* parser gives for the name of the file the row came from.
C9_AggregateRows ==
    (pc = "done" /\ all_tables # << >>) =>
        LET good == SelectSeq(uploaded_files, LAMBDA f : CleanOutcome(f).ok)
        IN  /\ Len(all_tables) = Len(good)
            /\ Len(df_all.rows) = SumRows(all_tables)
            /\ HasAllMeta(df_all)
            /\ \A j \in 1..Len(all_tables) :
                  LET t == all_tables[j]
                      off == SumRows(SubSeq(all_tables, 1, j - 1))
                      m == extract_metadata_from_filename(good[j].name)
                  IN  /\ Len(t.rows) = Cardinality(DistinctIds(LibResTable(good[j])))
                      /\ \A r \in 1..Len(t.rows) :
                            /\ \A k \in 1..Len(MetaKeys) :
                                  Column(df_all, MetaKeys[k])[off + r] =
                                      MetaCell(m, MetaKeys[k])
                            /\ \A k \in 1..Len(t.columns) :
                                  Column(df_all, t.columns[k])[off + r] = t.rows[r][k]

\* C9 witness: two files with different names were combined, one of them
\* from a sheet that has a column named group.
C9_Witness ==
    /\ pc = "done"
    /\ Len(all_tables) = 2
    /\ Len(uploaded_files) = 2
    /\ uploaded_files[1].name # uploaded_files[2].name
    /\ HasCol(LibResTable(uploaded_files[2]), "group")
    /\ Len(df_all.rows) = 3

====
